---- MODULE Spec2Model ----
(***************************************************************************)
(* A model of the SAC agents of algorithms/sac/agent.py (SACAgent and the  *)
(* recurrent SACAgentLSTM): the experience stores they fill, step() and    *)
(* its rewriting of done, update_model() with its delayed policy step and  *)
(* soft target update, and the train() loop that ties them together.       *)
(*                                                                         *)
(* The replay stores (ReplayBuffer, EpisodeBuffer) and soft_update live in *)
(* algorithms/common, which is not part of the sources at hand: they are   *)
(* modelled from the specification's description of their contract.        *)
(***************************************************************************)
EXTENDS Integers, Sequences, FiniteSets, TLC

\* ------------------------------------------------------------------------
\* Bounds of the model
\* ------------------------------------------------------------------------
MaxCapacity == 4        \* largest BUFFER_SIZE tried
MaxBatch == 3           \* largest flat BATCH_SIZE tried
MaxAdds == 6            \* adds performed by the flat store harness
MaxEpisodes == 2        \* largest EPISODE_SIZE tried
MaxStepSize == 2        \* largest STEP_SIZE tried
MaxSeqBatch == 2        \* largest BATCH_SIZE tried with the sequence store
MaxSeqAdds == 5         \* adds performed by the sequence store harness
MaxUpdates == 4         \* update_model invocations of the update harness
MaxFreq == 3            \* largest POLICY_UPDATE_FREQ tried
MaxFill == 2            \* adds performed by the update harness
MaxCkptUpdates == 2     \* update_model invocations of the checkpoint harness
MaxStepCap == 2         \* largest max_episode_steps tried; an episode of the
                        \* environment lasts at most one step more
MaxEpisodeNum == 2      \* largest episode_num tried
MaxBrakeRegion == 3     \* largest BRAKE_REGION tried

VARIABLES
    agent,              \* the class: "SACAgent" or "SACAgentLSTM"
    hyper_params,       \* self.hyper_params: the hyper-parameter mapping
    memory,             \* self.memory: the experience store
    batch,              \* the result of the last memory.sample()
    n_add,              \* number of _add_transition_to_memory calls so far
    episode_step,       \* self.episode_step
    i_episode,          \* self.i_episode
    update_step,        \* self.update_step
    params,             \* the networks and their optimizers, by checkpoint key
    log_alpha,          \* self.log_alpha (used with AUTO_ENTROPY_TUNING only)
    last,               \* outcome of the last update_model / load_params call
    oracle,             \* what the optimizers and losses may produce
    disk,               \* the checkpoint files, by path
    args,               \* self.args: the command line
    total_step,         \* self.total_step
    curr_state,         \* self.curr_state: the observation select_action got
    pc,                 \* where train() is
    env,                \* the environment: steps since reset, closed or not
    loop,               \* train()'s locals: done, loss_episode, the learn loop
    events              \* resets, log records, saves, tests and close, in order

storeVars == <<memory, batch, n_add, episode_step, i_episode>>
netVars == <<update_step, params, log_alpha, last>>
trainVars == <<args, total_step, curr_state, pc, env, loop, events>>
vars == <<agent, hyper_params, storeVars, netVars, oracle, disk, trainVars>>

Min(a, b) == IF a <= b THEN a ELSE b

\* ------------------------------------------------------------------------
\* Transitions: (state, action, reward, next_state, done).  The observation,
\* action and reward are opaque to the agent; a transition is identified by
\* its sequence number id, the episode ep and the step k (from 1) that
\* produced it.  done is the stored flag; cause is what the environment
\* reported for that step: "run" (not done), "fail" (a true terminal state)
\* or "cap" (done only because the step-count cap was reached).
\* ------------------------------------------------------------------------
Transition(id, ep, k, done, cause) ==
    [id |-> id, ep |-> ep, k |-> k, done |-> done, cause |-> cause]

\* an observation of the environment: the one reset returns for episode ep
\* is (ep, 0), the one the k-th step returns is (ep, k); before the first
\* reset the agent holds a placeholder
Observation(ep, k) == <<ep, k>>

\* a transition built from the wrong side of the step: its state is the
\* observation the environment returned, not the one acted on
StepTransitionNextAsState(id, ep, k, done_bool, cause, state, action, next_state) ==
    [id |-> id, ep |-> ep, k |-> k, done |-> done_bool, cause |-> cause,
     state |-> next_state, action |-> action, next_state |-> next_state]

\* step(): transition = (self.curr_state, action, reward, next_state,
\* done_bool), with the bookkeeping of Transition
StepTransition(id, ep, k, done_bool, cause, state, action, next_state) ==
    [id |-> id, ep |-> ep, k |-> k, done |-> done_bool, cause |-> cause,
     state |-> state, action |-> action, next_state |-> next_state]

\* the content of a slot no add() has written
Empty == Transition(0, 0, 0, FALSE, "none")

\* ------------------------------------------------------------------------
\* The flat store
\* ------------------------------------------------------------------------
ReplayBuffer(buffer_size, batch_size) ==
    [kind |-> "flat",
     buffer_size |-> buffer_size,
     batch_size |-> batch_size,
     buf |-> [i \in 0 .. buffer_size - 1 |-> Empty],
     idx |-> 0,
     length |-> 0]

\* add(): store at the write index mod capacity, advance the write index
ReplayBufferAdd(m, t) ==
    [m EXCEPT !.buf[m.idx % m.buffer_size] = t,
              !.idx = m.idx + 1,
              !.length = Min(m.length + 1, m.buffer_size)]

\* len()
ReplayBufferLen(m) == m.length

IsInjective(s) == \A i, j \in DOMAIN s : i # j => s[i] # s[j]

\* sample(): the index sequences a uniform draw without replacement among
\* the occupied slots can produce
ReplayBufferIndices(m) ==
    {s \in [1 .. m.batch_size -> 0 .. m.length - 1] : IsInjective(s)}

NoBatch == [status |-> "none", slots |-> <<>>, items |-> <<>>]
FailedBatch == [status |-> "failed", slots |-> <<>>, items |-> <<>>]

\* sample(): fails before batch_size transitions are stored
ReplayBufferSample(m) ==
    IF m.length < m.batch_size
    THEN {FailedBatch}
    ELSE {[status |-> "ok", slots |-> s,
           items |-> [i \in 1 .. m.batch_size |-> m.buf[s[i]]]] :
            s \in ReplayBufferIndices(m)}

\* ------------------------------------------------------------------------
\* The sequence store: a circular buffer of whole episodes
\* ------------------------------------------------------------------------
EpisodeBuffer(episode_size, batch_size, step_size) ==
    [kind |-> "episode",
     episode_size |-> episode_size,
     batch_size |-> batch_size,
     step_size |-> step_size,
     episodes |-> [i \in 0 .. episode_size - 1 |-> <<>>],
     idx |-> 0,
     count |-> 0,
     current |-> <<>>]

\* add(): append to the episode being recorded; a done transition closes the
\* episode, which is stored at the circular write position
EpisodeBufferAdd(m, t) ==
    IF t.done
    THEN [m EXCEPT !.episodes[m.idx % m.episode_size] = Append(m.current, t),
                   !.idx = m.idx + 1,
                   !.count = Min(m.count + 1, m.episode_size),
                   !.current = <<>>]
    ELSE [m EXCEPT !.current = Append(m.current, t)]

RECURSIVE SumLen(_, _)
SumLen(eps, n) == IF n = 0 THEN 0 ELSE Len(eps[n - 1]) + SumLen(eps, n - 1)

\* len(): the number of transitions of the stored episodes
EpisodeBufferLen(m) == SumLen(m.episodes, m.episode_size)

\* the (episode, first step) pairs a window of step_size steps can start at
EpisodeBufferWindows(m) ==
    {w \in UNION {{e} \X (1 .. Len(m.episodes[e])) :
                     e \in 0 .. m.episode_size - 1} :
        w[2] + m.step_size - 1 <= Len(m.episodes[w[1]])}

\* sample(): batch_size windows, with replacement across episodes, each a
\* contiguous run of step_size steps of one stored episode; fails while no
\* stored episode is long enough
EpisodeBufferSample(m) ==
    IF EpisodeBufferWindows(m) = {}
    THEN {FailedBatch}
    ELSE {[status |-> "ok", slots |-> s,
           items |-> [i \in 1 .. m.batch_size |->
                        SubSeq(m.episodes[s[i][1]], s[i][2],
                               s[i][2] + m.step_size - 1)]] :
            s \in [1 .. m.batch_size -> EpisodeBufferWindows(m)]}

MemoryAdd(m, t) ==
    IF m.kind = "flat" THEN ReplayBufferAdd(m, t) ELSE EpisodeBufferAdd(m, t)

MemorySample(m) ==
    IF m.kind = "flat" THEN ReplayBufferSample(m) ELSE EpisodeBufferSample(m)

MemoryLen(m) ==
    IF m.kind = "flat" THEN ReplayBufferLen(m) ELSE EpisodeBufferLen(m)

\* ------------------------------------------------------------------------
\* Hyper-parameters.  TAU and the other rates are fractions <<numerator,
\* denominator>>; W_ENTROPY is in thousandths.
\* ------------------------------------------------------------------------
\* a mapping handed to the constructor that defines every key the two agents
\* read: the keys of __init__, _initialize, select_action, update_model and
\* train()
HyperParams(buffer_size, batch_size, episode_size, step_size) ==
    [BUFFER_SIZE |-> buffer_size, BATCH_SIZE |-> batch_size,
     EPISODE_SIZE |-> episode_size, STEP_SIZE |-> step_size,
     POLICY_UPDATE_FREQ |-> 2, AUTO_ENTROPY_TUNING |-> TRUE,
     W_ENTROPY |-> 1, TAU |-> <<1, 200>>,
     INITIAL_RANDOM_ACTION |-> 1, PREFILL_BUFFER |-> 1, MULTIPLE_LEARN |-> 1,
     BRAKE_ENABLE |-> FALSE, BRAKE_REGION |-> 2,
     GAMMA |-> <<99, 100>>, LR_ENTROPY |-> <<3, 10000>>,
     W_MEAN_REG |-> 0, W_STD_REG |-> 0, W_PRE_ACTIVATION_REG |-> 0,
     BRAKE_DIST_MU |-> 1, BRAKE_DIST_SIGMA |-> 1, BRAKE_FACTOR |-> <<1, 10>>]

\* a Namespace handed to the constructor that defines every attribute the
\* two agents read; load_from is the set holding the path given, if any
Args(max_episode_steps, episode_num, save_period, test_period, log) ==
    [test |-> FALSE, load_from |-> {}, log |-> log,
     max_episode_steps |-> max_episode_steps, episode_num |-> episode_num,
     save_period |-> save_period, test_period |-> test_period,
     relaunch_period |-> 1]

\* the Namespace run_torcs.py parses: it has no relaunch_period and no
\* test_period
ParserArgs(max_episode_steps, episode_num, save_period, log) ==
    [seed |-> 777, algo |-> "sac-lstm", test |-> FALSE, load_from |-> {},
     render |-> FALSE, render_after |-> 0, log |-> log,
     save_period |-> save_period, episode_num |-> episode_num,
     max_episode_steps |-> max_episode_steps, interim_test_num |-> 1,
     demo_path |-> "data/torcs_continuous_demo.pkl", wandb_project |-> ""]

\* a Namespace with further attributes set by the caller
WithAttributes(a, more) ==
    [k \in DOMAIN a \cup DOMAIN more |->
        IF k \in DOMAIN more THEN more[k] ELSE a[k]]

\* hyper_params of examples/torcs/sac-lstm.py: the keys are the file's; the
\* sizes and windows are scaled to the bounds, rates are fractions
ExampleHyperParams ==
    [GAMMA |-> <<99, 100>>, TAU |-> <<1, 200>>, W_ENTROPY |-> 1,
     W_MEAN_REG |-> 0, W_STD_REG |-> 0, W_PRE_ACTIVATION_REG |-> 0,
     LR_ACTOR |-> <<3, 10000>>, LR_VF |-> <<3, 10000>>,
     LR_QF1 |-> <<3, 10000>>, LR_QF2 |-> <<3, 10000>>,
     LR_ENTROPY |-> <<3, 10000>>,
     POLICY_UPDATE_FREQ |-> 2, BATCH_SIZE |-> 2, EPISODE_SIZE |-> 2,
     STEP_SIZE |-> 1, AUTO_ENTROPY_TUNING |-> TRUE, WEIGHT_DECAY |-> 0,
     INITIAL_RANDOM_ACTION |-> 2, PREFILL_BUFFER_LENGTH |-> 2,
     MULTIPLE_LEARN |-> 1, BRAKE_REGION |-> 3, BRAKE_DIST_MU |-> 2,
     BRAKE_DIST_SIGMA |-> 1, BRAKE_FACTOR |-> <<1, 10>>]

\* run() of the example: a path on the command line switches the random
\* warm-up off before the agent is constructed
RunHyperParams(a) ==
    IF a.load_from # {}
    THEN [ExampleHyperParams EXCEPT !.INITIAL_RANDOM_ACTION = 0]
    ELSE ExampleHyperParams

TauVals == {<<1, 10>>, <<1, 2>>}
WEntropyVals == {1, 5}

\* ------------------------------------------------------------------------
\* Network parameters.  A network that is only ever changed by its own
\* optimizer (actor, qf_1, qf_2) and every optimizer state are represented by
\* the number of optimizer steps applied to them; the V-critic and its
\* target, which the soft update combines, are exact fractions <<n, d>>.
\* ------------------------------------------------------------------------
RECURSIVE Gcd(_, _)
Gcd(a, b) == IF b = 0 THEN a ELSE Gcd(b, a % b)

Frac(n, d) == LET g == Gcd(n, d) IN <<n \div g, d \div g>>

\* The gradient computation and the optimizers are collaborators: oracle.vf
\* is the set of values a gradient step can leave the V-critic at,
\* oracle.loss the set of values a computed loss can take.
AnyOutcome == [vf |-> {0, 1}, loss |-> {0, 1}]

NetKeys == {"actor", "qf_1", "qf_2", "vf", "vf_target"}
BaseOptimKeys == {"actor_optim", "qf_1_optim", "qf_2_optim", "vf_optim"}

\* the attributes the constructor sets: the alpha optimizer exists only
\* with AUTO_ENTROPY_TUNING
ParamKeys(hp) ==
    NetKeys \cup BaseOptimKeys \cup
        (IF hp.AUTO_ENTROPY_TUNING THEN {"alpha_optim"} ELSE {})

\* run(): fresh networks, the V-target a structural copy of the V-critic
FreshParams(hp, v) ==
    [k \in ParamKeys(hp) |->
        IF k \in {"vf", "vf_target"} THEN Frac(v, 1) ELSE 0]

\* soft_update(local, target, tau): tau*local + (1 - tau)*target
SoftUpdate(local, target, tau) ==
    Frac(tau[1] * local[1] * target[2] + (tau[2] - tau[1]) * target[1] * local[2],
         tau[2] * local[2] * target[2])

\* a call that passes the two networks in the wrong order
UpdateTargetNetworksSwapped(p, hp) ==
    [p EXCEPT !.vf = SoftUpdate(p.vf_target, p.vf, hp.TAU)]

\* update_model: common_utils.soft_update(self.vf, self.vf_target, TAU)
UpdateTargetNetworks(p, hp) ==
    [p EXCEPT !.vf_target = SoftUpdate(p.vf, p.vf_target, hp.TAU)]

\* optimizer.zero_grad(); loss.backward(); optimizer.step()
OptimStep(p, net, optim) ==
    [p EXCEPT ![net] = @ + 1, ![optim] = @ + 1]

\* ------------------------------------------------------------------------
\* update_model
\* ------------------------------------------------------------------------
\* an entropy branch taken on the negated flag
EntropyStepInverted(hp, p, la, loss) ==
    IF ~hp.AUTO_ENTROPY_TUNING
    THEN [alpha_loss |-> loss, log_alpha |-> la + 1, alpha |-> <<"exp", la + 1>>,
          params |-> p]
    ELSE [alpha_loss |-> 0, log_alpha |-> la, alpha |-> <<"const", hp.W_ENTROPY>>,
          params |-> p]

\* "train alpha": with auto-tuning a gradient step on log_alpha and
\* alpha = exp(log_alpha); otherwise zero loss and alpha = W_ENTROPY
EntropyStep(hp, p, la, loss) ==
    IF hp.AUTO_ENTROPY_TUNING
    THEN [alpha_loss |-> loss, log_alpha |-> la + 1, alpha |-> <<"exp", la + 1>>,
          params |-> [p EXCEPT !.alpha_optim = @ + 1]]
    ELSE [alpha_loss |-> 0, log_alpha |-> la, alpha |-> <<"const", hp.W_ENTROPY>>,
          params |-> p]

\* "train Q functions", "train V function": one step of each optimizer; the
\* V step leaves the V-critic at v
TrainCritics(p, v) ==
    [OptimStep(OptimStep(p, "qf_1", "qf_1_optim"), "qf_2", "qf_2_optim")
        EXCEPT !.vf = Frac(v, 1), !.vf_optim = @ + 1]

\* a gate that reads update_step as it was before the increment
PolicyGateStale(hp, step) == (step - 1) % hp.POLICY_UPDATE_FREQ = 0

\* the delayed policy update is due
PolicyGate(hp, step) == step % hp.POLICY_UPDATE_FREQ = 0

\* a policy step whose target update is not under the gate
PolicyStepUngated(hp, step, p, loss) ==
    IF PolicyGate(hp, step)
    THEN [actor_loss |-> loss, policy |-> TRUE,
          params |-> UpdateTargetNetworks(OptimStep(p, "actor", "actor_optim"), hp)]
    ELSE [actor_loss |-> 0, policy |-> FALSE,
          params |-> UpdateTargetNetworks(p, hp)]

\* the delayed policy step: actor loss, "train actor", "update target
\* networks"; skipped, the actor loss is zeros(1)
PolicyStep(hp, step, p, loss) ==
    IF PolicyGate(hp, step)
    THEN [actor_loss |-> loss, policy |-> TRUE,
          params |-> UpdateTargetNetworks(OptimStep(p, "actor", "actor_optim"), hp)]
    ELSE [actor_loss |-> 0, policy |-> FALSE, params |-> p]

\* ------------------------------------------------------------------------
\* The recurrent update_model's forward calls and the (hidden, cell) pairs
\* they are handed
\* ------------------------------------------------------------------------
Stmt(op, net, input) == [op |-> op, net |-> net, input |-> input]

\* a body in which the critics thread the state qf_1 returned: qf_2 and the
\* networks after it are called without a new init_lstm_states
UpdateModelForwardsCarried ==
    <<Stmt("init", "actor", "none"), Stmt("forward", "actor", "states"),
      Stmt("init", "actor", "none"), Stmt("forward_keep", "qf_1", "actions"),
      Stmt("forward_keep", "qf_2", "actions"),
      Stmt("forward", "vf_target", "next_states"),
      Stmt("init", "actor", "none"), Stmt("forward", "vf", "states"),
      Stmt("init", "actor", "none"), Stmt("forward", "qf_1", "new_actions"),
      Stmt("init", "actor", "none"), Stmt("forward", "qf_2", "new_actions")>>

\* SACAgentLSTM.update_model, its init_lstm_states and forward calls in the
\* order of the body; every forward call's returned state is discarded
UpdateModelForwards ==
    <<Stmt("init", "actor", "none"), Stmt("forward", "actor", "states"),
      Stmt("init", "actor", "none"), Stmt("forward", "qf_1", "actions"),
      Stmt("init", "actor", "none"), Stmt("forward", "qf_2", "actions"),
      Stmt("init", "actor", "none"), Stmt("forward", "vf_target", "next_states"),
      Stmt("init", "actor", "none"), Stmt("forward", "vf", "states"),
      Stmt("init", "actor", "none"), Stmt("forward", "qf_1", "new_actions"),
      Stmt("init", "actor", "none"), Stmt("forward", "qf_2", "new_actions")>>

\* init_lstm_states: a pair of zero tensors; n tells the calls apart
InitLstmStates(n) == [kind |-> "zeros", init |-> n, from |-> "none"]

\* the pair a forward call returns
ReturnedStates(net, n) == [kind |-> "carried", init |-> n, from |-> net]

\* the forward calls of a body, each with the pair bound to hx, cx when it is
\* made; h is that pair, n the number of init_lstm_states calls so far
RECURSIVE RunForwards(_, _, _, _, _)
RunForwards(prog, i, h, n, acc) ==
    IF i > Len(prog) THEN acc
    ELSE LET st == prog[i]
             call == [net |-> st.net, input |-> st.input, hidden |-> h]
         IN  IF st.op = "init"
             THEN RunForwards(prog, i + 1, InitLstmStates(n + 1), n + 1, acc)
             ELSE IF st.op = "forward_keep"
             THEN RunForwards(prog, i + 1, ReturnedStates(st.net, n), n,
                              Append(acc, call))
             ELSE RunForwards(prog, i + 1, h, n, Append(acc, call))

\* hx, cx are locals: nothing is bound when an invocation starts
Forwards(cls) ==
    IF cls = "SACAgentLSTM"
    THEN RunForwards(UpdateModelForwards, 1,
                     [kind |-> "unbound", init |-> 0, from |-> "none"], 0, <<>>)
    ELSE <<>>

\* ------------------------------------------------------------------------
\* update_model's body, statement by statement: the forward passes, the
\* gradient steps and the soft update in the order of the source
\* ------------------------------------------------------------------------
\* a body with "update target networks" ahead of "train V function"
UpdateModelBodyTargetFirst(auto, gate) ==
    <<Stmt("forward", "actor", "states")>>
    \o (IF auto THEN <<Stmt("step", "alpha", "alpha_loss")>> ELSE <<>>)
    \o <<Stmt("forward", "qf_1", "actions"), Stmt("forward", "qf_2", "actions"),
         Stmt("forward", "vf_target", "next_states"),
         Stmt("forward", "vf", "states"),
         Stmt("forward", "qf_1", "new_actions"),
         Stmt("forward", "qf_2", "new_actions"),
         Stmt("step", "qf_1", "qf_1_loss"), Stmt("step", "qf_2", "qf_2_loss")>>
    \o (IF gate THEN <<Stmt("soft_update", "vf_target", "vf")>> ELSE <<>>)
    \o <<Stmt("step", "vf", "vf_loss")>>
    \o (IF gate THEN <<Stmt("step", "actor", "actor_loss")>> ELSE <<>>)

\* a body that runs the four steps one after the other: the Q-critics are
\* stepped before the value step's forward passes
UpdateModelBodyStepwise(auto, gate) ==
    <<Stmt("forward", "actor", "states")>>
    \o (IF auto THEN <<Stmt("step", "alpha", "alpha_loss")>> ELSE <<>>)
    \o <<Stmt("forward", "qf_1", "actions"), Stmt("forward", "qf_2", "actions"),
         Stmt("forward", "vf_target", "next_states"),
         Stmt("step", "qf_1", "qf_1_loss"), Stmt("step", "qf_2", "qf_2_loss"),
         Stmt("forward", "vf", "states"),
         Stmt("forward", "qf_1", "new_actions"),
         Stmt("forward", "qf_2", "new_actions"),
         Stmt("step", "vf", "vf_loss")>>
    \o (IF gate
        THEN <<Stmt("step", "actor", "actor_loss"),
               Stmt("soft_update", "vf_target", "vf")>>
        ELSE <<>>)

\* update_model after memory.sample(): the actor's forward pass, "train
\* alpha" if auto-tuning (auto), the forward passes of "Q function loss" and
\* "V function loss", "train Q functions", "train V function", and under the
\* policy gate (gate) "train actor" and "update target networks"
UpdateModelBody(auto, gate) ==
    <<Stmt("forward", "actor", "states")>>
    \o (IF auto THEN <<Stmt("step", "alpha", "alpha_loss")>> ELSE <<>>)
    \o <<Stmt("forward", "qf_1", "actions"), Stmt("forward", "qf_2", "actions"),
         Stmt("forward", "vf_target", "next_states"),
         Stmt("forward", "vf", "states"),
         Stmt("forward", "qf_1", "new_actions"),
         Stmt("forward", "qf_2", "new_actions"),
         Stmt("step", "qf_1", "qf_1_loss"), Stmt("step", "qf_2", "qf_2_loss"),
         Stmt("step", "vf", "vf_loss")>>
    \o (IF gate
        THEN <<Stmt("step", "actor", "actor_loss"),
               Stmt("soft_update", "vf_target", "vf")>>
        ELSE <<>>)

\* the gradient steps the first i statements of a body apply to a network
StepsApplied(prog, i, net) ==
    Cardinality({j \in 1 .. i : prog[j].op = "step" /\ prog[j].net = net})

\* the statements of a body as executed, each with the version of the
\* parameters it works on, counted in gradient steps of this invocation: the
\* version a forward pass reads, the version a gradient step leaves, the
\* version of its source the soft update reads
RunBody(prog) ==
    [i \in 1 .. Len(prog) |->
        [op |-> prog[i].op, net |-> prog[i].net, input |-> prog[i].input,
         version |-> StepsApplied(prog, i,
                                  IF prog[i].op = "soft_update"
                                  THEN prog[i].input ELSE prog[i].net)]]

\* what an invocation executes, by the two conditions of the body
UpdateModelTraces ==
    [auto \in BOOLEAN, gate \in BOOLEAN |-> RunBody(UpdateModelBody(auto, gate))]

\* outcome of a call: source is the V-critic as its gradient step left it
NoCall == [op |-> "none", status |-> "none", message |-> "none", path |-> -1,
           forwards |-> <<>>, trace |-> <<>>, policy |-> FALSE,
           alpha |-> <<"none", 0>>, actor_loss |-> 0, alpha_loss |-> 0,
           source |-> <<0, 1>>]

\* update_model's effect on the agent: the caller's frame is left to the caller
UpdateModelCall ==
    /\ update_step' = update_step + 1
    /\ \E b \in MemorySample(memory) :
          /\ batch' = b
          /\ IF b.status # "ok"
             THEN \* memory.sample() raises: nothing but update_step has changed
                  /\ last' = [NoCall EXCEPT !.op = "update_model", !.status = "raised"]
                  /\ UNCHANGED <<params, log_alpha>>
             ELSE \E v \in oracle.vf, la \in oracle.loss, ll \in oracle.loss :
                    LET ent == EntropyStep(hyper_params, params, log_alpha, ll)
                        crit == TrainCritics(ent.params, v)
                        pol == PolicyStep(hyper_params, update_step', crit, la)
                    IN  /\ log_alpha' = ent.log_alpha
                        /\ params' = pol.params
                        /\ last' = [op |-> "update_model", status |-> "returned",
                                    message |-> "none", path |-> -1,
                                    forwards |-> Forwards(agent),
                                    trace |-> UpdateModelTraces[
                                        hyper_params.AUTO_ENTROPY_TUNING,
                                        pol.policy],
                                    policy |-> pol.policy, alpha |-> ent.alpha,
                                    actor_loss |-> pol.actor_loss,
                                    alpha_loss |-> ent.alpha_loss,
                                    source |-> crit.vf]

\* ------------------------------------------------------------------------
\* Checkpoints: load_params, save_params
\* ------------------------------------------------------------------------
NoFile == [exists |-> FALSE, data |-> <<>>]
File(data) == [exists |-> TRUE, data |-> data]

\* the order in which load_params reads the keys
LoadOrder(hp) ==
    <<"actor", "qf_1", "qf_2", "vf", "vf_target",
      "actor_optim", "qf_1_optim", "qf_2_optim", "vf_optim">>
    \o (IF hp.AUTO_ENTROPY_TUNING THEN <<"alpha_optim">> ELSE <<>>)

\* load_state_dict key by key; a missing key raises and leaves the keys
\* before it loaded
RECURSIVE LoadKeys(_, _, _, _)
LoadKeys(p, data, order, i) ==
    IF i > Len(order) THEN [params |-> p, status |-> "returned"]
    ELSE IF order[i] \notin DOMAIN data THEN [params |-> p, status |-> "raised"]
    ELSE LoadKeys([p EXCEPT ![order[i]] = data[order[i]]], data, order, i + 1)

\* load_params(path)
LoadParamsResult(hp, p, file) ==
    IF ~file.exists
    THEN [params |-> p, status |-> "no_path"]
    ELSE LoadKeys(p, file.data, LoadOrder(hp), 1)

\* what load_params prints: "[ERROR] the input path does not exist", "[INFO]
\* loaded the model and optimizer", nothing when it raises
LoadMessage(status) ==
    IF status = "no_path" THEN "error"
    ELSE IF status = "returned" THEN "info" ELSE "none"

\* __init__: load_params is called only for a path that is given and exists
ConstructLoad(hp, a, d, p) ==
    IF \E path \in a.load_from : d[path].exists
    THEN LET path == CHOOSE path \in a.load_from : d[path].exists
             r == LoadParamsResult(hp, p, d[path])
         IN  [params |-> r.params, status |-> r.status,
              message |-> LoadMessage(r.status), path |-> path]
    ELSE [params |-> p, status |-> "skipped", message |-> "none", path |-> -1]

\* a mapping written without the entropy optimizer
SavedParamsWithoutAlpha(hp, p) == [k \in NetKeys \cup BaseOptimKeys |-> p[k]]

\* save_params: the mapping written
SavedParams(hp, p) == [k \in ParamKeys(hp) |-> p[k]]

\* Agent.save_params(params, n_episode): one file per episode number
SavePath(n_episode) == n_episode + 1

\* checkpoints an earlier run may have left at path 0: none, one written
\* with auto-tuning, one written without
PreFiles ==
    {NoFile,
     File([k \in NetKeys \cup BaseOptimKeys \cup {"alpha_optim"} |->
             IF k = "vf" THEN <<1, 1>> ELSE IF k = "vf_target" THEN <<1, 3>> ELSE 7]),
     File([k \in NetKeys \cup BaseOptimKeys |->
             IF k = "vf" THEN <<1, 1>> ELSE IF k = "vf_target" THEN <<1, 3>> ELSE 7])}

\* ------------------------------------------------------------------------
\* SACAgent and SACAgentLSTM: construction of the store, adding to it
\* ------------------------------------------------------------------------
\* constructor calls with two sizes in the wrong order
InitializeSwapped(cls, hp) ==
    IF cls = "SACAgent"
    THEN ReplayBuffer(hp.BATCH_SIZE, hp.BUFFER_SIZE)
    ELSE EpisodeBuffer(hp.EPISODE_SIZE, hp.STEP_SIZE, hp.BATCH_SIZE)

\* SACAgent._initialize, SACAgentLSTM._initialize: the replay memory
Initialize(cls, hp) ==
    IF cls = "SACAgent"
    THEN ReplayBuffer(hp.BUFFER_SIZE, hp.BATCH_SIZE)
    ELSE EpisodeBuffer(hp.EPISODE_SIZE, hp.BATCH_SIZE, hp.STEP_SIZE)

\* in test mode _initialize creates neither self.memory nor self.brakes
NoMemory == [kind |-> "none"]

\* the keys __init__ and _initialize look up without a presence check
\* (AUTO_ENTROPY_TUNING is read first): a mapping without one of them raises
\* KeyError
ConstructorKeys(cls, hp, a) ==
    {"AUTO_ENTROPY_TUNING"}
    \cup (IF "AUTO_ENTROPY_TUNING" \in DOMAIN hp /\ hp.AUTO_ENTROPY_TUNING
          THEN {"LR_ENTROPY"} ELSE {})
    \cup (IF a.test THEN {}
          ELSE (IF cls = "SACAgent" THEN {"BUFFER_SIZE", "BATCH_SIZE"}
                ELSE {"EPISODE_SIZE", "BATCH_SIZE", "STEP_SIZE"})
               \cup {"BRAKE_REGION", "BRAKE_DIST_MU", "BRAKE_DIST_SIGMA"})

\* a store call that loses the transition of every second call
AddTransitionToMemoryLossy(m, t) ==
    IF t.id % 2 = 0 THEN m ELSE MemoryAdd(m, t)

\* _add_transition_to_memory: self.memory.add(*transition)
AddTransitionToMemory(m, t) == MemoryAdd(m, t)

\* __init__: counters at zero, fresh networks with the V-critic at v or the
\* checkpoint of args.load_from, the store built by _initialize; a
\* construction that raises leaves no agent
InitAgent(v) ==
    /\ ConstructorKeys(agent, hyper_params, args) \subseteq DOMAIN hyper_params
    /\ memory = IF args.test THEN NoMemory ELSE Initialize(agent, hyper_params)
    /\ batch = NoBatch
    /\ n_add = 0
    /\ episode_step = 0
    /\ update_step = 0
    /\ LET r == ConstructLoad(hyper_params, args, disk,
                               FreshParams(hyper_params, v))
       IN  /\ r.status # "raised"
           /\ params = r.params
           /\ last = [NoCall EXCEPT !.op = "__init__", !.status = r.status,
                                    !.message = r.message, !.path = r.path]
    /\ log_alpha = 0
    /\ total_step = 0
    /\ curr_state = Observation(0, 0)
    /\ i_episode = 0
    /\ env = [k |-> 0, closed |-> FALSE, obs |-> Observation(0, 0),
              action |-> [source |-> "none", braked |-> FALSE]]
    /\ loop = [done |-> FALSE, n_loss |-> 0, learn_left |-> 0, n_upd |-> 0,
               error |-> "none", state |-> Observation(0, 0),
               brake_index |-> -1,
               action |-> [source |-> "none", braked |-> FALSE]]
    /\ events = <<>>

\* the agent's methods are called directly, train() is not running
InitHarness ==
    /\ args = Args(1, 1, 1, 1, FALSE)
    /\ InitAgent(0)
    /\ oracle = AnyOutcome
    /\ pc = "idle"

\* ------------------------------------------------------------------------
\* The flat store driven directly: any interleaving of add() and sample()
\* ------------------------------------------------------------------------
InitStore ==
    /\ agent = "SACAgent"
    /\ \E c \in 1 .. MaxCapacity, b \in 1 .. MaxBatch :
          hyper_params = HyperParams(c, b, 1, 1)
    /\ disk = [path \in {0} |-> NoFile]
    /\ InitHarness

\* _add_transition_to_memory with the n-th transition handed in
StoreAdd ==
    /\ n_add < MaxAdds
    /\ memory' = AddTransitionToMemory(memory,
                    Transition(n_add + 1, i_episode, n_add + 1,
                               FALSE, "run"))
    /\ n_add' = n_add + 1
    /\ UNCHANGED <<agent, hyper_params, batch, episode_step, i_episode,
                   netVars, oracle, disk, trainVars>>

StoreSample ==
    /\ batch' \in MemorySample(memory)
    /\ UNCHANGED <<agent, hyper_params, memory, n_add, episode_step, i_episode,
                   netVars, oracle, disk, trainVars>>

NextStore == StoreAdd \/ StoreSample

SpecStore == InitStore /\ [][NextStore]_vars

\* ------------------------------------------------------------------------
\* The sequence store driven directly: episodes of any length, added step by
\* step, interleaved with sample()
\* ------------------------------------------------------------------------
InitSeqStore ==
    /\ agent = "SACAgentLSTM"
    /\ \E e \in 1 .. MaxEpisodes, b \in 1 .. MaxSeqBatch, s \in 1 .. MaxStepSize :
          hyper_params = HyperParams(1, b, e, s)
    /\ disk = [path \in {0} |-> NoFile]
    /\ InitHarness

\* _add_transition_to_memory with the next transition of the episode being
\* recorded handed in: the caller numbers episodes by the episodes closed so
\* far and steps by the steps recorded so far
SeqStoreAdd ==
    /\ n_add < MaxSeqAdds
    /\ \E d \in BOOLEAN :
          memory' = AddTransitionToMemory(memory,
                       Transition(n_add + 1, memory.idx,
                                  Len(memory.current) + 1,
                                  d, IF d THEN "fail" ELSE "run"))
    /\ n_add' = n_add + 1
    /\ UNCHANGED <<agent, hyper_params, batch, episode_step, i_episode,
                   netVars, oracle, disk, trainVars>>

SeqStoreSample ==
    /\ batch' \in MemorySample(memory)
    /\ UNCHANGED <<agent, hyper_params, memory, n_add, episode_step, i_episode,
                   netVars, oracle, disk, trainVars>>

NextSeqStore == SeqStoreAdd \/ SeqStoreSample

SpecSeqStore == InitSeqStore /\ [][NextSeqStore]_vars

\* ------------------------------------------------------------------------
\* update_model, save_params and load_params driven directly on an agent
\* whose store is being filled: any interleaving of the calls
\* ------------------------------------------------------------------------
InitUpdate ==
    /\ agent \in {"SACAgent", "SACAgentLSTM"}
    /\ \E b \in 1 .. 2, f \in 1 .. MaxFreq, a \in BOOLEAN,
          w \in WEntropyVals, tau \in TauVals :
          hyper_params = [HyperParams(2, b, 1, 1) EXCEPT
                             !.POLICY_UPDATE_FREQ = f,
                             !.AUTO_ENTROPY_TUNING = a,
                             !.W_ENTROPY = w,
                             !.TAU = tau]
    /\ disk = [path \in {0} |-> NoFile]
    /\ InitHarness

\* an environment step's transition reaches the store
UpdateFill ==
    /\ n_add < MaxFill
    /\ \E d \in (IF agent = "SACAgent" THEN {FALSE} ELSE {TRUE}) :
          memory' = AddTransitionToMemory(memory,
                       Transition(n_add + 1, i_episode, n_add + 1,
                                  d, IF d THEN "fail" ELSE "run"))
    /\ n_add' = n_add + 1
    /\ UNCHANGED <<agent, hyper_params, batch, episode_step, i_episode,
                   netVars, oracle, disk, trainVars>>

UpdateModel ==
    /\ update_step < MaxUpdates
    /\ UpdateModelCall
    /\ UNCHANGED <<agent, hyper_params, memory, n_add, episode_step, i_episode,
                   oracle, disk, trainVars>>

NextUpdate == UpdateFill \/ UpdateModel

SpecUpdate == InitUpdate /\ [][NextUpdate]_vars

\* ------------------------------------------------------------------------
\* The same agent with its checkpoint calls: update_model, save_params and
\* load_params in any interleaving, path 0 holding what an earlier run left
\* ------------------------------------------------------------------------
InitCkpt ==
    /\ agent \in {"SACAgent", "SACAgentLSTM"}
    /\ \E f \in 1 .. 2, a \in BOOLEAN :
          hyper_params = [HyperParams(2, 1, 1, 1) EXCEPT
                             !.POLICY_UPDATE_FREQ = f,
                             !.AUTO_ENTROPY_TUNING = a,
                             !.TAU = <<1, 2>>]
    /\ \E pre \in PreFiles :
          disk = [path \in {0, SavePath(0)} |->
                    IF path = 0 THEN pre ELSE NoFile]
    /\ \E load_from \in {{}, {0}} :
          args = [Args(1, 1, 1, 1, FALSE) EXCEPT !.load_from = load_from]
    /\ InitAgent(0)
    /\ oracle = AnyOutcome
    /\ pc = "idle"

CkptUpdateModel ==
    /\ update_step < MaxCkptUpdates
    /\ UpdateModelCall
    /\ UNCHANGED <<agent, hyper_params, memory, n_add, episode_step, i_episode,
                   oracle, disk, trainVars>>

\* load_params(path), for a path that holds a checkpoint or none
LoadParams ==
    /\ \E path \in DOMAIN disk :
          LET r == LoadParamsResult(hyper_params, params, disk[path])
          IN  /\ params' = r.params
              /\ last' = [NoCall EXCEPT !.op = "load_params",
                                        !.status = r.status,
                                        !.message = LoadMessage(r.status),
                                        !.path = path]
    /\ UNCHANGED <<agent, hyper_params, storeVars, update_step, log_alpha,
                   oracle, disk, trainVars>>

\* save_params(self.i_episode)
SaveParams ==
    /\ disk' = [disk EXCEPT ![SavePath(i_episode)] =
                                File(SavedParams(hyper_params, params))]
    /\ UNCHANGED <<agent, hyper_params, storeVars, netVars, oracle, trainVars>>

NextCkpt == UpdateFill \/ CkptUpdateModel \/ LoadParams \/ SaveParams

SpecCkpt == InitCkpt /\ [][NextCkpt]_vars

\* ------------------------------------------------------------------------
\* step(): the environment's answer and the transition stored for it
\* ------------------------------------------------------------------------
\* a warm-up window one step too long
SelectActionInclusive(hp, a, step) ==
    IF step <= hp.INITIAL_RANDOM_ACTION /\ ~a.test THEN "random" ELSE "actor"

\* a gate that opens once either threshold is cleared
LearnGateEither(hp, m) ==
    MemoryLen(m) >= hp.BATCH_SIZE \/ MemoryLen(m) >= hp.PREFILL_BUFFER

\* a stored flag that is the environment's done, never rewritten
DoneBoolRaw(step, max_episode_steps, done) == done

\* done_bool: step is self.episode_step as step() finds it
DoneBool(step, max_episode_steps, done) ==
    IF step = max_episode_steps THEN FALSE ELSE done

\* what env.step can report for the k-th step (from 1) since reset: the
\* episode goes on, ends in a true terminal state, or ends only because k has
\* reached the step-count cap; no episode outlasts MaxStepCap + 1 steps
EnvStepOutcomes(k, max_episode_steps) ==
    IF k > MaxStepCap
    THEN {"fail"}
    ELSE {"run", "fail"} \cup (IF k = max_episode_steps THEN {"cap"} ELSE {})

\* select_action: uniformly random while total_step < INITIAL_RANDOM_ACTION
SelectAction(hp, a, step) ==
    IF step < hp.INITIAL_RANDOM_ACTION /\ ~a.test THEN "random" ELSE "actor"

\* the brake is consulted while BRAKE_ENABLE is set and total_step <
\* BRAKE_REGION
BrakeConsulted(hp, step) ==
    /\ "BRAKE_ENABLE" \in DOMAIN hp
    /\ hp.BRAKE_ENABLE
    /\ "BRAKE_REGION" \in DOMAIN hp
    /\ step < hp.BRAKE_REGION

\* the entry of self.brakes train() reads: self.brakes[self.i_episode]
BrakeIndex(ep, step) == ep

\* the brake table of _initialize has BRAKE_REGION entries
BrakeIndexInRange(hp, index) == index < hp.BRAKE_REGION

\* env.try_brake(action): the action with its brake channel overridden
TryBrake(action) == [action EXCEPT !.braked = TRUE]

\* the gate reads PREFILL_BUFFER once the BATCH_SIZE test has passed: a
\* mapping without the key raises KeyError there
LearnGateRaises(hp, m) ==
    MemoryLen(m) >= hp.BATCH_SIZE /\ "PREFILL_BUFFER" \notin DOMAIN hp

\* the training gate after an environment step
LearnGate(hp, m) ==
    MemoryLen(m) >= hp.BATCH_SIZE /\ MemoryLen(m) >= hp.PREFILL_BUFFER

\* ------------------------------------------------------------------------
\* train(): the episode loop
\* ------------------------------------------------------------------------
\* n_upd counts the update_model invocations since the last environment step
NoLoop == [done |-> FALSE, n_loss |-> 0, learn_left |-> 0, n_upd |-> 0,
           error |-> "none", state |-> Observation(0, 0), brake_index |-> -1,
           action |-> [source |-> "none", braked |-> FALSE]]

AfterStep(done) == IF done THEN "end" ELSE "step"

\* the log file's header, pretrain()
TrainStart ==
    /\ pc = "start"
    /\ events' = IF args.log THEN Append(events, <<"header", 0>>) ELSE events
    /\ pc' = IF args.episode_num >= 1 THEN "episode" ELSE "terminate"
    /\ UNCHANGED <<agent, hyper_params, storeVars, netVars, oracle, disk,
                   args, total_step, curr_state, env, loop>>

\* an episode head that zeroes update_step along with episode_step
EpisodeHeadResetsUpdateStep ==
    /\ pc = "episode"
    /\ i_episode' = i_episode + 1
    /\ env' = [env EXCEPT !.k = 0, !.obs = Observation(i_episode', 0)]
    /\ events' = Append(events, <<"reset", i_episode'>>)
    /\ episode_step' = 0
    /\ update_step' = 0
    /\ loop' = [done |-> FALSE, n_loss |-> 0, learn_left |-> 0, n_upd |-> 0,
                error |-> "none", state |-> Observation(i_episode', 0),
                brake_index |-> -1,
                action |-> [source |-> "none", braked |-> FALSE]]
    /\ pc' = "step"
    /\ UNCHANGED <<agent, hyper_params, memory, batch, n_add, params,
                   log_alpha, last, oracle, disk, args, total_step,
                   curr_state>>

\* the head of the for loop: the next episode number, state = env.reset(),
\* the locals
EpisodeHead ==
    /\ pc = "episode"
    /\ i_episode' = i_episode + 1
    /\ IF "relaunch_period" \in DOMAIN args
       THEN /\ env' = [env EXCEPT !.k = 0, !.obs = Observation(i_episode', 0)]
            /\ events' = Append(events, <<"reset", i_episode'>>)
            /\ episode_step' = 0
            /\ loop' = [NoLoop EXCEPT !.state = Observation(i_episode', 0)]
            /\ pc' = "step"
       ELSE \* self.args.relaunch_period raises AttributeError before the
            \* reset
            /\ pc' = "crashed"
            /\ loop' = [loop EXCEPT !.error = "attribute"]
            /\ UNCHANGED <<env, events, episode_step>>
    /\ UNCHANGED <<agent, hyper_params, memory, batch, n_add, netVars, oracle,
                   disk, args, total_step, curr_state>>

\* one pass of the while loop up to the training gate: select_action, the
\* brake, step(), the counters, state = next_state
EnvStep ==
    /\ pc = "step"
    /\ curr_state' = loop.state
    /\ IF BrakeConsulted(hyper_params, total_step)
          /\ (args.test \/ ~BrakeIndexInRange(hyper_params,
                                              BrakeIndex(i_episode, total_step)))
       THEN \* self.brakes[self.i_episode] raises IndexError, or
            \* AttributeError without the table
            /\ pc' = "crashed"
            /\ loop' = [loop EXCEPT
                  !.error = "brakes",
                  !.brake_index = BrakeIndex(i_episode, total_step),
                  !.action = [source |-> SelectAction(hyper_params, args,
                                                      total_step),
                              braked |-> FALSE]]
            /\ UNCHANGED <<memory, n_add, total_step, episode_step, env>>
       ELSE \E braked \in (IF BrakeConsulted(hyper_params, total_step)
                           THEN BOOLEAN ELSE {FALSE}),
               o \in EnvStepOutcomes(env.k + 1, args.max_episode_steps) :
              LET selected == [source |-> SelectAction(hyper_params, args,
                                                       total_step),
                               braked |-> FALSE]
                  action == IF braked THEN TryBrake(selected) ELSE selected
                  next_state == Observation(i_episode, env.k + 1)
                  done == o # "run"
                  done_bool == DoneBool(episode_step, args.max_episode_steps, done)
                  t == StepTransition(n_add + 1, i_episode, env.k + 1,
                                      done_bool, o, curr_state', action,
                                      next_state)
                  m == IF args.test THEN memory ELSE AddTransitionToMemory(memory, t)
                  raises == ~args.test /\ LearnGateRaises(hyper_params, m)
                  learn == ~args.test /\ ~raises /\ LearnGate(hyper_params, m)
                              /\ hyper_params.MULTIPLE_LEARN > 0
              IN  /\ env' = [env EXCEPT !.k = env.k + 1, !.obs = next_state,
                                        !.action = action]
                  /\ memory' = m
                  /\ n_add' = IF args.test THEN n_add ELSE n_add + 1
                  /\ total_step' = total_step + 1
                  /\ episode_step' = episode_step + 1
                  /\ loop' = [loop EXCEPT
                        !.done = done,
                        !.n_upd = 0,
                        !.state = next_state,
                        !.action = action,
                        !.brake_index =
                            IF BrakeConsulted(hyper_params, total_step)
                            THEN BrakeIndex(i_episode, total_step) ELSE -1,
                        !.learn_left = IF learn THEN hyper_params.MULTIPLE_LEARN
                                       ELSE 0,
                        !.error = IF args.test THEN "memory"
                                  ELSE IF raises THEN "key" ELSE loop.error]
                  \* without self.memory the gate's len() raises, without
                  \* the key its lookup does
                  /\ pc' = IF args.test \/ raises THEN "crashed"
                           ELSE IF learn THEN "learn" ELSE AfterStep(done)
    /\ UNCHANGED <<agent, hyper_params, batch, i_episode, netVars, oracle, disk,
                   args, events>>

\* one pass of the MULTIPLE_LEARN loop: update_model, its loss kept for the log
Learn ==
    /\ pc = "learn"
    /\ UpdateModelCall
    /\ IF last'.status = "raised"
       THEN /\ pc' = "crashed"
            /\ loop' = [loop EXCEPT !.error = "sample",
                                    !.n_upd = loop.n_upd + 1]
       ELSE /\ loop' = [loop EXCEPT !.n_loss = loop.n_loss + 1,
                                    !.n_upd = loop.n_upd + 1,
                                    !.learn_left = loop.learn_left - 1]
            /\ pc' = IF loop.learn_left > 1 THEN "learn" ELSE AfterStep(loop.done)
    /\ UNCHANGED <<agent, hyper_params, memory, n_add, episode_step, i_episode,
                   oracle, disk, args, total_step, curr_state, env, events>>

\* what the end of an episode appends: the log record, the periodic save and
\* the periodic test
\* periods counted from episode 0, as the relaunch period is
SaveDueFromZero(a, ep) == (ep - 1) % a.save_period = 0
TestDueFromZero(a, ep) == (ep - 1) % a.test_period = 0

\* the periodic checkpoint and the periodic evaluation
SaveDue(a, ep) == ep % a.save_period = 0
TestDue(a, ep) == ep % a.test_period = 0

\* a log record written whether or not the episode had an update
EpisodeEndEventsAlwaysLog(a, ep, n_loss) ==
    (IF a.log THEN <<<<"log", ep>>>> ELSE <<>>)
    \o (IF SaveDue(a, ep) THEN <<<<"save", ep>>>> ELSE <<>>)
    \o (IF TestDue(a, ep) THEN <<<<"test", ep>>>> ELSE <<>>)

EpisodeEndEvents(a, ep, n_loss) ==
    (IF n_loss > 0 /\ a.log THEN <<<<"log", ep>>>> ELSE <<>>)
    \o (IF SaveDue(a, ep) THEN <<<<"save", ep>>>> ELSE <<>>)
    \o (IF "test_period" \in DOMAIN a /\ TestDue(a, ep)
        THEN <<<<"test", ep>>>> ELSE <<>>)

\* after the while loop: write_log, save_params, interim_test
EpisodeEnd ==
    /\ pc = "end"
    /\ events' = events \o EpisodeEndEvents(args, i_episode, loop.n_loss)
    /\ disk' = IF SaveDue(args, i_episode)
               THEN [disk EXCEPT ![SavePath(i_episode)] =
                                     File(SavedParams(hyper_params, params))]
               ELSE disk
    \* self.args.test_period raises AttributeError after the save
    /\ pc' = IF "test_period" \notin DOMAIN args THEN "crashed"
             ELSE IF i_episode < args.episode_num THEN "episode"
             ELSE "terminate"
    /\ loop' = IF "test_period" \notin DOMAIN args
               THEN [loop EXCEPT !.error = "attribute"] ELSE loop
    /\ UNCHANGED <<agent, hyper_params, storeVars, netVars, oracle, args,
                   total_step, curr_state, env>>

\* termination: env.close, save_params, interim_test
Terminate ==
    /\ pc = "terminate"
    /\ env' = [env EXCEPT !.closed = TRUE]
    /\ disk' = [disk EXCEPT ![SavePath(i_episode)] =
                                File(SavedParams(hyper_params, params))]
    /\ events' = events \o <<<<"close", i_episode>>, <<"final_save", i_episode>>,
                             <<"final_test", i_episode>>>>
    /\ pc' = "done"
    /\ UNCHANGED <<agent, hyper_params, storeVars, netVars, oracle, args,
                   total_step, curr_state, loop>>

\* the runs of train() examined: both agents, every cap and episode count up
\* to the bounds, stores small enough to wrap, batches of two updated once per
\* step and batches of one updated up to twice, the critic's gradient steps
\* fixed to one outcome, the brake heuristic off
InitTrain ==
    /\ agent \in {"SACAgent", "SACAgentLSTM"}
    /\ \E b \in 1 .. 2, pre \in {1, 3}, ml \in 1 .. 2 :
          /\ b + ml <= 3
          /\ hyper_params = [HyperParams(3, b, 2, 1) EXCEPT
                                !.TAU = <<1, 2>>,
                                !.INITIAL_RANDOM_ACTION = 2,
                                !.PREFILL_BUFFER = pre,
                                !.MULTIPLE_LEARN = ml]
    /\ \E mx \in 1 .. MaxStepCap, n \in 0 .. MaxEpisodeNum, sp \in 1 .. 2,
          test \in BOOLEAN :
          args = [Args(mx, n, sp, 2, TRUE) EXCEPT !.test = test]
    /\ disk = [path \in 0 .. MaxEpisodeNum + 1 |-> NoFile]
    /\ InitAgent(0)
    /\ oracle = [vf |-> {1}, loss |-> {1}]
    /\ pc = "start"

NextTrain ==
    TrainStart \/ EpisodeHead \/ EnvStep \/ Learn \/ EpisodeEnd \/ Terminate

SpecTrain == InitTrain /\ [][NextTrain]_vars

\* train() of the recurrent agent with windows of one step and longer: the
\* sequence store holds two episodes, one update per environment step
InitTrainSeq ==
    /\ agent = "SACAgentLSTM"
    /\ \E b \in 1 .. 2, s \in 1 .. MaxStepSize, pre \in {1, 3} :
          hyper_params = [HyperParams(3, b, 2, s) EXCEPT
                             !.TAU = <<1, 2>>,
                             !.PREFILL_BUFFER = pre]
    /\ \E mx \in 1 .. MaxStepCap, n \in 1 .. MaxEpisodeNum :
          args = Args(mx, n, 1, 2, TRUE)
    /\ disk = [path \in 0 .. MaxEpisodeNum + 1 |-> NoFile]
    /\ InitAgent(0)
    /\ oracle = [vf |-> {1}, loss |-> {1}]
    /\ pc = "start"

SpecTrainSeq == InitTrainSeq /\ [][NextTrain]_vars

\* train() with the brake heuristic: both agents, the heuristic on and off,
\* every BRAKE_REGION up to the bound, one update per environment step from
\* the first transition on
InitTrainBrake ==
    /\ agent \in {"SACAgent", "SACAgentLSTM"}
    /\ \E br \in BOOLEAN, region \in 1 .. MaxBrakeRegion :
          hyper_params = [HyperParams(3, 1, 2, 1) EXCEPT
                             !.TAU = <<1, 2>>,
                             !.BRAKE_ENABLE = br,
                             !.BRAKE_REGION = region]
    /\ \E mx \in 1 .. MaxStepCap, n \in 0 .. MaxEpisodeNum :
          args = Args(mx, n, 1, 2, FALSE)
    /\ disk = [path \in 0 .. MaxEpisodeNum + 1 |-> NoFile]
    /\ InitAgent(0)
    /\ oracle = [vf |-> {1}, loss |-> {1}]
    /\ pc = "start"

SpecTrainBrake == InitTrainBrake /\ [][NextTrain]_vars

\* the attributes a caller of run() may add to the parser's Namespace: none,
\* relaunch_period, or relaunch_period and test_period
MoreAttributes ==
    {[k \in {} |-> 1], [relaunch_period |-> 1],
     [relaunch_period |-> 1, test_period |-> 2]}

\* run() of examples/torcs/sac-lstm.py in training mode: the recurrent agent
\* on the example's mapping, started without a path, with the path of a
\* missing file or with the path of a checkpoint, on the Namespace of
\* run_torcs.py as parsed or with the periods train() reads added
InitRun ==
    /\ agent = "SACAgentLSTM"
    /\ \E mx \in 1 .. MaxStepCap, n \in 0 .. MaxEpisodeNum,
          load_from \in {{}, {0}}, log \in BOOLEAN, more \in MoreAttributes :
          args = WithAttributes([ParserArgs(mx, n, 1, log) EXCEPT
                                    !.load_from = load_from], more)
    /\ hyper_params = RunHyperParams(args)
    /\ \E file \in PreFiles :
          disk = [path \in 0 .. MaxEpisodeNum + 1 |->
                     IF path = 0 THEN file ELSE NoFile]
    /\ InitAgent(0)
    /\ oracle = [vf |-> {1}, loss |-> {1}]
    /\ pc = "start"

\* train() on the example's mapping: the gate raises before the learn loop
\* is entered
NextRun ==
    TrainStart \/ EpisodeHead \/ EnvStep \/ EpisodeEnd \/ Terminate

SpecRun == InitRun /\ [][NextRun]_vars

\* ------------------------------------------------------------------------
\* Properties of the flat store (checked under SpecStore)
\* ------------------------------------------------------------------------
Max(a, b) == IF a >= b THEN a ELSE b

\* the transitions sample() can return: the occupied slots
Stored == {memory.buf[i] : i \in 0 .. MemoryLen(memory) - 1}

\* C1: after n adds on a fresh flat store of capacity C = BUFFER_SIZE, len()
\* is min(n, C), and so never exceeds C.
C1_LenIsMinOfAddsAndCapacity ==
    /\ MemoryLen(memory) = Min(n_add, hyper_params.BUFFER_SIZE)
    /\ MemoryLen(memory) <= hyper_params.BUFFER_SIZE

\* more adds than the store can hold
C1_Witness ==
    /\ hyper_params.BUFFER_SIZE = 4
    /\ n_add = 6
    /\ MemoryLen(memory) = 4

\* C2: after n adds of the distinct transitions 1..n the flat store holds
\* exactly the last min(n, C) of them, each as it was added; the oldest are
\* the ones overwritten.
C2_HoldsLastTransitions ==
    /\ {t.id : t \in Stored} =
          Max(1, n_add - hyper_params.BUFFER_SIZE + 1) .. n_add
    /\ \A t \in Stored : t = Transition(t.id, i_episode, t.id, FALSE, "run")
    /\ \A i \in 0 .. hyper_params.BUFFER_SIZE - 1 :
          i >= MemoryLen(memory) => memory.buf[i] = Empty

\* capacity 4, inserts 1..6: the store holds {3, 4, 5, 6}
C2_Witness ==
    /\ hyper_params.BUFFER_SIZE = 4
    /\ n_add = 6
    /\ {t.id : t \in Stored} = {3, 4, 5, 6}

\* C3: a batch returned by the flat store's sample() has BATCH_SIZE pairwise
\* distinct slots, each written by an earlier add(): no slot that was never
\* written is referenced and every returned transition is one that was added.
C3_SampleOnlyWrittenSlots ==
    batch.status = "ok" =>
        /\ Len(batch.slots) = hyper_params.BATCH_SIZE
        /\ Len(batch.items) = hyper_params.BATCH_SIZE
        /\ IsInjective(batch.slots)
        /\ \A i \in 1 .. Len(batch.slots) :
              /\ batch.slots[i] \in 0 .. hyper_params.BUFFER_SIZE - 1
              /\ memory.buf[batch.slots[i]] # Empty
              /\ batch.items[i] # Empty
              /\ batch.items[i].id \in 1 .. n_add

\* a batch of two drawn while part of the store was never written
C3_Witness ==
    /\ batch.status = "ok"
    /\ hyper_params.BATCH_SIZE = 2
    /\ hyper_params.BUFFER_SIZE = 4
    /\ n_add = 2
    /\ memory.buf[3] = Empty

\* ------------------------------------------------------------------------
\* Properties of the sequence store (checked under SpecSeqStore)
\* ------------------------------------------------------------------------
\* C4: every window returned by the sequence store's sample() has STEP_SIZE
\* elements of one episode, consecutive steps in their original order: no
\* gap, no reordering and no crossing of an episode boundary.
C4_WindowsAreContiguous ==
    batch.status = "ok" =>
        /\ Len(batch.items) = hyper_params.BATCH_SIZE
        /\ \A j \in 1 .. Len(batch.items) :
              LET w == batch.items[j] IN
              /\ Len(w) = hyper_params.STEP_SIZE
              /\ \A i \in 1 .. Len(w) : w[i].id \in 1 .. n_add
              /\ \A i \in 1 .. Len(w) - 1 :
                    /\ w[i + 1].ep = w[i].ep
                    /\ w[i + 1].k = w[i].k + 1
                    /\ w[i + 1].id = w[i].id + 1
                    /\ ~w[i].done

\* a batch of two windows of two steps, drawn from two different episodes
C4_Witness ==
    /\ batch.status = "ok"
    /\ hyper_params.STEP_SIZE = 2
    /\ hyper_params.BATCH_SIZE = 2
    /\ batch.items[1][1].ep # batch.items[2][1].ep
    /\ batch.items[1][1].k = 2

\* ------------------------------------------------------------------------
\* Properties of update_model (checked under SpecUpdate)
\* ------------------------------------------------------------------------
\* the step is an update_model invocation that returned
UpdateReturned ==
    /\ update_step' = update_step + 1
    /\ last'.op = "update_model"
    /\ last'.status = "returned"

\* C7: an update_model invocation performs the actor's gradient step if and
\* only if update_step, after its increment, is a multiple of
\* POLICY_UPDATE_FREQ; every other invocation leaves the actor and its
\* optimizer unchanged and reports an actor loss of exactly 0.
C7_ActorStepIffGate ==
    [][UpdateReturned =>
        LET due == update_step' % hyper_params.POLICY_UPDATE_FREQ = 0 IN
        /\ (params'.actor # params.actor) <=> due
        /\ (params'.actor_optim # params.actor_optim) <=> due
        /\ last'.policy <=> due
        /\ ~due => last'.actor_loss = 0]_vars

\* POLICY_UPDATE_FREQ = 2, three invocations: the third has just reported a
\* zero actor loss and the actor has been stepped once, in the second
C7_Witness ==
    /\ hyper_params.POLICY_UPDATE_FREQ = 2
    /\ update_step = 3
    /\ last.status = "returned"
    /\ ~last.policy
    /\ last.actor_loss = 0
    /\ params.actor = 1

\* after = tau * source + (1 - tau) * before, for fractions
IsConvexCombination(source, before, after, tau) ==
    LET d == tau[2] * source[2] * before[2]
        n == tau[1] * source[1] * before[2]
                + (tau[2] - tau[1]) * before[1] * source[2]
    IN  \* after = n / d, with after in lowest terms
        /\ d % after[2] = 0
        /\ after[1] * (d \div after[2]) = n

\* C8: each soft target update sets the target to
\* tau * source + (1 - tau) * target_old exactly, a convex combination, and
\* leaves the source as the V-critic's gradient step left it; with tau = 0.1
\* and the source at 1.0, a target at 0.0 becomes 0.1 and a target at 0.1
\* becomes 0.19.
C8_SoftUpdateIsConvex ==
    [][(UpdateReturned /\ last'.policy) =>
        /\ 0 < hyper_params.TAU[1] /\ hyper_params.TAU[1] < hyper_params.TAU[2]
        /\ params'.vf = last'.source
        /\ IsConvexCombination(last'.source, params.vf_target,
                               params'.vf_target, hyper_params.TAU)
        /\ (hyper_params.TAU = <<1, 10>> /\ last'.source = <<1, 1>>) =>
              /\ params.vf_target = <<0, 1>> => params'.vf_target = <<1, 10>>
              /\ params.vf_target = <<1, 10>> => params'.vf_target = <<19, 100>>]_vars

\* tau = 0.1, two soft updates with the source at 1.0 from a target at 0.0
C8_Witness ==
    /\ hyper_params.TAU = <<1, 10>>
    /\ hyper_params.POLICY_UPDATE_FREQ = 1
    /\ update_step = 2
    /\ last.policy
    /\ params.vf = <<1, 1>>
    /\ params.vf_target = <<19, 100>>

\* C10: with AUTO_ENTROPY_TUNING disabled the alpha used by every
\* update_model invocation is the configured W_ENTROPY, the reported alpha
\* loss is zero and no entropy gradient step is ever taken.
C10_FixedAlphaWithoutAutoTuning ==
    ~hyper_params.AUTO_ENTROPY_TUNING =>
        /\ last.status = "returned" =>
              /\ last.alpha = <<"const", hyper_params.W_ENTROPY>>
              /\ last.alpha_loss = 0
        /\ log_alpha = 0
        /\ "alpha_optim" \notin DOMAIN params

\* three invocations without auto-tuning, W_ENTROPY = 0.005
C10_Witness ==
    /\ ~hyper_params.AUTO_ENTROPY_TUNING
    /\ hyper_params.W_ENTROPY = 5
    /\ update_step = 3
    /\ last.status = "returned"

\* ------------------------------------------------------------------------
\* Properties of the V-target (checked under SpecCkpt)
\* ------------------------------------------------------------------------
\* C9 as stated: the V-target's parameters are mutated only by the soft
\* update of an update_model invocation that performs the delayed policy
\* step.
C9_OnlySoftUpdateMutatesTarget ==
    [][params'.vf_target # params.vf_target =>
        (UpdateReturned /\ last'.policy)]_vars

\* the step is a load_params call that read vf_target from a checkpoint
LoadedTarget ==
    /\ update_step' = update_step
    /\ last'.op = "load_params"
    /\ \E path \in DOMAIN disk :
          /\ disk[path].exists
          /\ "vf_target" \in DOMAIN disk[path].data
          /\ params'.vf_target = disk[path].data.vf_target

\* C9: the V-target's parameters are mutated only by the soft update, which
\* sets them to the convex combination with the V-critic, and by load_params,
\* which overwrites them with the checkpoint's vf_target; no gradient step
\* modifies them, and an update_model invocation that skips the delayed
\* policy step leaves them unchanged.
C9_TargetMutatedBySoftUpdateOrLoad ==
    [][/\ params'.vf_target # params.vf_target =>
            \/ /\ UpdateReturned
               /\ last'.policy
               /\ IsConvexCombination(params'.vf, params.vf_target,
                                      params'.vf_target, hyper_params.TAU)
            \/ LoadedTarget
       /\ (update_step' = update_step + 1 /\ ~last'.policy) =>
            params'.vf_target = params.vf_target]_vars

\* after two invocations, one of which skipped the policy step and one of
\* which updated the target, a checkpoint load has replaced the target
C9_Witness ==
    /\ last.op = "load_params"
    /\ last.status = "returned"
    /\ hyper_params.POLICY_UPDATE_FREQ = 2
    /\ update_step = 2
    /\ params.actor_optim = 7
    /\ params.vf_target = <<1, 3>>

\* ------------------------------------------------------------------------
\* Properties of step() inside train() (checked under SpecTrain)
\* ------------------------------------------------------------------------
RECURSIVE SeqsRange(_, _)
SeqsRange(eps, n) ==
    IF n = 0 THEN {}
    ELSE {eps[n - 1][i] : i \in 1 .. Len(eps[n - 1])} \cup SeqsRange(eps, n - 1)

\* every transition the store holds, the episode being recorded included
AllStored(m) ==
    IF m.kind = "none" THEN {}
    ELSE IF m.kind = "flat"
    THEN {m.buf[i] : i \in 0 .. m.length - 1}
    ELSE SeqsRange(m.episodes, m.episode_size)
            \cup {m.current[i] : i \in 1 .. Len(m.current)}

\* C5: in training mode step() is called for the k-th step of an episode with
\* episode_step = k - 1; the transition it stores has done = false when that
\* episode_step equals max_episode_steps, whatever the environment reported,
\* and the environment's raw done otherwise.
C5_StoredDoneFollowsTruncationRule ==
    /\ pc = "step" => episode_step = env.k
    /\ \A t \in AllStored(memory) :
          t.done = IF t.k - 1 = args.max_episode_steps
                   THEN FALSE
                   ELSE t.cause # "run"

\* a transition stored at episode_step = max_episode_steps whose raw done was
\* true, next to a terminal transition stored with its raw done
C5_Witness ==
    /\ ~args.test
    /\ \E t \in AllStored(memory) :
          t.k - 1 = args.max_episode_steps /\ t.cause = "fail" /\ ~t.done
    /\ \E t \in AllStored(memory) :
          t.k - 1 # args.max_episode_steps /\ t.cause = "fail" /\ t.done

\* C6: no transition whose episode ended only because of the step-count cap
\* (the environment reported done on step max_episode_steps, counted from 1,
\* without a failure) is stored with done = true.
C6_CapTransitionStoredNotDone ==
    \A t \in AllStored(memory) : t.cause = "cap" => ~t.done

\* sample()'s precondition: the store can produce a batch
SamplePrecondition(m) == FailedBatch \notin MemorySample(m)

\* C11: whenever train() is about to call update_model, which calls
\* memory.sample(), the store satisfies sample's precondition (flat: at least
\* BATCH_SIZE transitions; sequence: a stored episode of STEP_SIZE steps or
\* more), so that the occupancy gate alone guarantees it.
C11_GateGuaranteesSamplePrecondition ==
    pc = "learn" => SamplePrecondition(memory)

\* C12: when train() is ready for the next environment step (or has left the
\* step loop), the update_model invocations made since the last environment
\* step number exactly MULTIPLE_LEARN if the store's occupancy is at least
\* BATCH_SIZE and at least PREFILL_BUFFER, and 0 otherwise; while the learn
\* loop runs they are fewer than MULTIPLE_LEARN.
C12_UpdatesPerStepFollowGate ==
    /\ (pc \in {"step", "end"} /\ env.k > 0) =>
          loop.n_upd = IF MemoryLen(memory) >= hyper_params.BATCH_SIZE
                          /\ MemoryLen(memory) >= hyper_params.PREFILL_BUFFER
                       THEN hyper_params.MULTIPLE_LEARN
                       ELSE 0
    /\ pc = "learn" => loop.n_upd < hyper_params.MULTIPLE_LEARN

\* both cases in one run: a step that was followed by no update, then a step
\* followed by two
C12_Witness ==
    /\ pc = "step"
    /\ hyper_params.MULTIPLE_LEARN = 2
    /\ hyper_params.PREFILL_BUFFER = 3
    /\ total_step = 3
    /\ update_step = 2
    /\ loop.n_upd = 2

\* ------------------------------------------------------------------------
\* Properties of the order of events in train()
\* ------------------------------------------------------------------------
\* the positions of the events of one kind
Positions(kind) == {i \in 1 .. Len(events) : events[i][1] = kind}

\* C13: when train() has completed, the final checkpoint save and the final
\* evaluation rollout have both happened, and the environment was closed only
\* after both of them.
C13_CloseAfterFinalSaveAndTest ==
    pc = "done" =>
        /\ Positions("final_save") # {}
        /\ Positions("final_test") # {}
        /\ \A c \in Positions("close") :
              \A i \in Positions("final_save") \cup Positions("final_test") :
                 i < c

\* ------------------------------------------------------------------------
\* Properties of the checkpoint calls (checked under SpecCkpt)
\* ------------------------------------------------------------------------
\* the agent was constructed with load_from naming a path that does not exist
ConstructedOnMissingPath ==
    /\ last.op = "__init__"
    /\ args.load_from # {}
    /\ \A path \in args.load_from : ~disk[path].exists

\* C14: loading from a path that does not exist, at construction with
\* load_from set or by a load_params call, is not fatal: the error message is
\* logged, no network or optimizer state is modified, and the agent goes on
\* with its freshly initialized parameters.
C14_MissingPathIsLoggedAndHarmless ==
    [][/\ ConstructedOnMissingPath =>
            /\ last.message = "error"
            /\ params = FreshParams(hyper_params, 0)
       /\ (last'.op = "load_params" /\ ~disk[last'.path].exists) =>
            /\ last'.status = "no_path"
            /\ last'.message = "error"
            /\ params' = params
            /\ log_alpha' = log_alpha]_vars

\* the keys of the checkpoint format
NineKeys ==
    {"actor", "qf_1", "qf_2", "vf", "vf_target",
     "actor_optim", "qf_1_optim", "qf_2_optim", "vf_optim"}

RequiredKeys ==
    NineKeys \cup (IF hyper_params.AUTO_ENTROPY_TUNING
                   THEN {"alpha_optim"} ELSE {})

\* the files save_params has written: every path but the one an earlier run
\* left
SavedFiles == {disk[path] : path \in {q \in DOMAIN disk \ {0} : disk[q].exists}}

\* C15: the mapping save_params writes has exactly the nine keys, plus
\* alpha_optim if and only if AUTO_ENTROPY_TUNING is enabled; a load_params
\* that succeeds has found every key it requires in the file, and one that
\* finds the file but not all of them fails.
C15_CheckpointKeys ==
    /\ \A f \in SavedFiles :
          /\ NineKeys \subseteq DOMAIN f.data
          /\ DOMAIN f.data \ NineKeys \subseteq {"alpha_optim"}
          /\ "alpha_optim" \in DOMAIN f.data <=> hyper_params.AUTO_ENTROPY_TUNING
    /\ (last.op \in {"load_params", "__init__"} /\ last.status = "returned") =>
          /\ disk[last.path].exists
          /\ RequiredKeys \subseteq DOMAIN disk[last.path].data
    /\ (last.op = "load_params" /\ disk[last.path].exists
           /\ ~(RequiredKeys \subseteq DOMAIN disk[last.path].data)) =>
          last.status = "raised"

\* with auto-tuning on, a checkpoint of ten keys has been saved and a load of
\* the nine-key file an earlier run left has failed
C15_Witness ==
    /\ hyper_params.AUTO_ENTROPY_TUNING
    /\ \E f \in SavedFiles : DOMAIN f.data = NineKeys \cup {"alpha_optim"}
    /\ last.op = "load_params"
    /\ last.path = 0
    /\ DOMAIN disk[0].data = NineKeys
    /\ last.status = "raised"

\* with auto-tuning off, a checkpoint of nine keys has been saved and loaded
C15_WitnessLoaded ==
    /\ ~hyper_params.AUTO_ENTROPY_TUNING
    /\ \E f \in SavedFiles : DOMAIN f.data = NineKeys
    /\ last.op = "load_params"
    /\ last.path = SavePath(0)
    /\ last.status = "returned"

\* ------------------------------------------------------------------------
\* Properties of the log, the periodic saves and tests (checked under
\* SpecTrain, where logging is enabled)
\* ------------------------------------------------------------------------
\* how many events of one kind a sequence holds for episode ep
Count(ev, kind, ep) == Cardinality({i \in 1 .. Len(ev) : ev[i] = <<kind, ep>>})

Episodes == 0 .. MaxEpisodeNum + 1

\* C16 as claimed: every episode that has ended has exactly one log record,
\* the episodes without an update_model invocation included.
C16_OneLogRecordPerEpisode ==
    args.log =>
        \A ep \in 1 .. args.episode_num :
           (ep < i_episode \/ (ep = i_episode /\ pc \in {"episode", "terminate", "done"}))
              => Count(events, "log", ep) = 1

\* C16: with logging enabled, the end of an episode's step loop appends one
\* log record for that episode if update_model returned at least once during
\* the episode (loss_episode is not empty) and none otherwise; no other step
\* of train() appends a log record, and loss_episode grows by one with each
\* returning update_model and is emptied by the head of the episode loop.
C16_LogRecordIffEpisodeHadUpdate ==
    [][/\ \A ep \in Episodes :
             Count(events', "log", ep) =
                Count(events, "log", ep)
                  + (IF pc = "end" /\ ep = i_episode /\ args.log /\ loop.n_loss > 0
                     THEN 1 ELSE 0)
       /\ loop'.n_loss =
             IF pc = "episode" THEN 0
             ELSE IF pc = "learn" /\ last'.status = "returned"
                  THEN loop.n_loss + 1
                  ELSE loop.n_loss]_vars

\* a run of two episodes: the first without an update and without a record,
\* the second with updates and one record
C16_Witness ==
    /\ pc = "done"
    /\ args.log
    /\ args.episode_num = 2
    /\ Count(events, "log", 1) = 0
    /\ Count(events, "log", 2) = 1
    /\ update_step > 0

\* ------------------------------------------------------------------------
\* Properties of the recurrent update_model (checked under SpecUpdate)
\* ------------------------------------------------------------------------
\* C17: in the recurrent update_model the seven forward calls (actor, Q1 and
\* Q2 on the stored actions, V-target, V, Q1 and Q2 on the new actions) each
\* receive a pair that init_lstm_states has just created, zero and its own:
\* none receives the pair an earlier forward call returned, in this
\* invocation or a previous one.
C17_ForwardCallsGetFreshZeroStates ==
    (agent = "SACAgentLSTM" /\ last.op = "update_model"
        /\ last.status = "returned") =>
        /\ [i \in 1 .. Len(last.forwards) |->
               <<last.forwards[i].net, last.forwards[i].input>>] =
              <<<<"actor", "states">>, <<"qf_1", "actions">>,
                <<"qf_2", "actions">>, <<"vf_target", "next_states">>,
                <<"vf", "states">>, <<"qf_1", "new_actions">>,
                <<"qf_2", "new_actions">>>>
        /\ \A i \in 1 .. Len(last.forwards) :
              /\ last.forwards[i].hidden.kind = "zeros"
              /\ last.forwards[i].hidden.from = "none"
              /\ \A j \in 1 .. Len(last.forwards) :
                    i # j => last.forwards[i].hidden.init
                                # last.forwards[j].hidden.init

\* the second invocation of the recurrent agent has returned
C17_Witness ==
    /\ agent = "SACAgentLSTM"
    /\ update_step = 2
    /\ last.op = "update_model"
    /\ last.status = "returned"
    /\ Len(last.forwards) = 7

\* ------------------------------------------------------------------------
\* Properties of select_action in train()
\* ------------------------------------------------------------------------
\* the step is an environment step
IsEnvStep == pc = "step" /\ env'.k = env.k + 1

\* C18: total_step grows by one with every environment step and is changed
\* by nothing else, episode boundaries included; the action of an environment
\* step is a uniformly sampled one if and only if the agent is in training
\* mode and total_step < INITIAL_RANDOM_ACTION when it is selected, and comes
\* from the actor otherwise, in test mode always.
C18_RandomActionIffWarmUp ==
    [][/\ total_step' = total_step + (IF IsEnvStep THEN 1 ELSE 0)
       /\ IsEnvStep =>
             loop'.action.source =
                IF ~args.test /\ total_step < hyper_params.INITIAL_RANDOM_ACTION
                THEN "random" ELSE "actor"]_vars

\* second episode, first step: the warm-up window of two steps is over
\* because the first episode took three, and the action is the actor's
C18_Witness ==
    /\ ~args.test
    /\ i_episode = 2
    /\ episode_step = 1
    /\ total_step = 4
    /\ hyper_params.INITIAL_RANDOM_ACTION = 2
    /\ loop.action.source = "actor"

\* second episode, first step, still inside the warm-up window
C18_WitnessRandom ==
    /\ ~args.test
    /\ i_episode = 2
    /\ episode_step = 1
    /\ total_step = 2
    /\ loop.action.source = "random"

\* test mode, first step: the actor's action
C18_WitnessTest ==
    /\ args.test
    /\ total_step = 1
    /\ loop.action.source = "actor"

\* ------------------------------------------------------------------------
\* Properties of the periodic save and test
\* ------------------------------------------------------------------------
\* episode ep's step loop and end-of-episode block are behind train()
EpisodeEnded(ep) ==
    \/ ep < i_episode
    \/ ep = i_episode /\ pc \in {"episode", "terminate", "done"}

\* the events of one kind for episode ep lie after that episode's reset and
\* before the next episode's
WithinEpisode(kind, ep) ==
    \A i \in 1 .. Len(events) :
       events[i] = <<kind, ep>> =>
          /\ \E r \in 1 .. i - 1 : events[r] = <<"reset", ep>>
          /\ \A r \in 1 .. i - 1 : events[r] # <<"reset", ep + 1>>

\* C19: an episode i of train() that has ended has one periodic checkpoint
\* save if i mod save_period = 0 and none otherwise, one periodic evaluation
\* rollout if i mod test_period = 0 and none otherwise; an episode still in its
\* step loop has neither, and both lie between the episode's reset and the
\* next episode's reset.
C19_PeriodicSaveAndTest ==
    \A ep \in 1 .. MaxEpisodeNum + 1 :
       /\ Count(events, "save", ep) =
             IF EpisodeEnded(ep) /\ ep % args.save_period = 0 THEN 1 ELSE 0
       /\ Count(events, "test", ep) =
             IF EpisodeEnded(ep) /\ ep % args.test_period = 0 THEN 1 ELSE 0
       /\ (EpisodeEnded(ep) /\ ep % args.save_period = 0) =>
             disk[SavePath(ep)].exists
       /\ WithinEpisode("save", ep)
       /\ WithinEpisode("test", ep)

\* two episodes with both periods 2: nothing after the first, a save and a
\* test after the second, before train() goes on to its termination
C19_Witness ==
    /\ pc = "terminate"
    /\ i_episode = 2
    /\ args.save_period = 2
    /\ args.test_period = 2
    /\ Count(events, "save", 1) = 0
    /\ Count(events, "test", 1) = 0
    /\ Count(events, "save", 2) = 1
    /\ Count(events, "test", 2) = 1

\* ------------------------------------------------------------------------
\* Properties of update_step in train()
\* ------------------------------------------------------------------------
\* C20: update_step is 0 at construction, grows by exactly one with every
\* update_model invocation and is changed by no other step of train() (episode
\* heads, environment steps, saves, tests), so that the policy gate of an
\* invocation that returns is decided by the count of all invocations since
\* construction.
C20_UpdateStepCountsInvocations ==
    [][/\ pc = "start" => update_step = 0
       /\ update_step' = update_step + (IF pc = "learn" THEN 1 ELSE 0)
       /\ (pc = "learn" /\ last'.status = "returned") =>
             (last'.policy <=>
                (update_step + 1) % hyper_params.POLICY_UPDATE_FREQ = 0)]_vars

\* the first invocation of the second episode is the second since
\* construction and takes the policy step
C20_Witness ==
    /\ i_episode = 2
    /\ loop.n_loss = 1
    /\ update_step = 2
    /\ hyper_params.POLICY_UPDATE_FREQ = 2
    /\ last.op = "update_model"
    /\ last.policy

\* ------------------------------------------------------------------------
\* Properties of the order of update_model's statements (checked under
\* SpecUpdate)
\* ------------------------------------------------------------------------
\* where the last invocation executed the statements of one kind
At(op, net, input) ==
    {i \in 1 .. Len(last.trace) :
        /\ last.trace[i].op = op
        /\ last.trace[i].net = net
        /\ last.trace[i].input = input}

\* the last call is an update_model invocation that returned
LastReturned == last.op = "update_model" /\ last.status = "returned"

\* C21: in an update_model invocation that performs the delayed policy step
\* the soft target update is executed once, after the V-critic's gradient
\* step and after the actor's gradient step of the same invocation, and it
\* interpolates toward the V parameters as that gradient step left them; the
\* V prediction the advantage uses was computed before the actor step and
\* before the soft update.  An invocation that skips the policy step executes
\* neither the actor step nor the soft update.
C21_SoftUpdateAfterGradientSteps ==
    LastReturned =>
        LET soft == At("soft_update", "vf_target", "vf")
            vf_step == At("step", "vf", "vf_loss")
            actor_step == At("step", "actor", "actor_loss")
            v_pred == At("forward", "vf", "states")
        IN  /\ Cardinality(vf_step) = 1
            /\ Cardinality(v_pred) = 1
            /\ Cardinality(soft) = (IF last.policy THEN 1 ELSE 0)
            /\ Cardinality(actor_step) = (IF last.policy THEN 1 ELSE 0)
            /\ \A s \in soft :
                  /\ \A i \in vf_step \cup actor_step \cup v_pred : i < s
                  /\ last.trace[s].version = 1
                  /\ params.vf = last.source
            /\ \A a \in actor_step : \A i \in v_pred : i < a

\* the second invocation took the policy step: the V-critic was stepped from
\* 0 to 1 and the target then moved half the way towards it
C21_Witness ==
    /\ LastReturned
    /\ last.policy
    /\ hyper_params.POLICY_UPDATE_FREQ = 2
    /\ hyper_params.TAU = <<1, 2>>
    /\ update_step = 2
    /\ At("soft_update", "vf_target", "vf") # {}
    /\ params.vf = <<1, 1>>
    /\ params.vf_target = <<1, 2>>

\* the forward passes of the critics in the last invocation
CriticForwards ==
    {i \in 1 .. Len(last.trace) :
        last.trace[i].op = "forward" /\ last.trace[i].net # "actor"}

\* the forward passes that evaluate Q_min on the new actions
QMinForwards ==
    At("forward", "qf_1", "new_actions") \cup At("forward", "qf_2", "new_actions")

\* the gradient steps of the Q-critics and of the V-critic
CriticSteps ==
    At("step", "qf_1", "qf_1_loss") \cup At("step", "qf_2", "qf_2_loss")
        \cup At("step", "vf", "vf_loss")

\* C22 as claimed: the gradient steps on Q1 and Q2 are applied before the
\* value step evaluates Q_min on the new actions.
C22_CriticStepsBeforeQMin ==
    LastReturned =>
        \A f \in QMinForwards :
           /\ \A i \in At("step", "qf_1", "qf_1_loss")
                         \cup At("step", "qf_2", "qf_2_loss") : i < f
           /\ last.trace[f].version = 1

\* C22: within one update_model invocation the actor is evaluated once, as
\* the first statement, and its new actions and log-probabilities serve every
\* later use; the entropy step follows directly when auto-tuning is on; then
\* the six critic forward passes (Q1 and Q2 on the stored actions, V-target,
\* V, Q1 and Q2 on the new actions for Q_min) are all evaluated on the
\* parameters the critics had when the invocation began; only then are the
\* gradient steps applied, in the order Q1, Q2, V, followed by the delayed
\* policy step.
C22_LossesBeforeCriticSteps ==
    LastReturned =>
        /\ At("forward", "actor", "states") = {1}
        /\ At("step", "alpha", "alpha_loss") =
              (IF hyper_params.AUTO_ENTROPY_TUNING THEN {2} ELSE {})
        /\ Cardinality(CriticForwards) = 6
        /\ Cardinality(QMinForwards) = 2
        /\ Cardinality(CriticSteps) = 3
        /\ \A f \in CriticForwards :
              /\ last.trace[f].version = 0
              /\ \A i \in At("step", "alpha", "alpha_loss") : i < f
              /\ \A i \in CriticSteps : f < i
        /\ \A i \in At("step", "qf_1", "qf_1_loss"),
              j \in At("step", "qf_2", "qf_2_loss"),
              k \in At("step", "vf", "vf_loss") :
              /\ i < j
              /\ j < k
              /\ \A a \in At("step", "actor", "actor_loss") : k < a

\* an invocation with auto-tuning that skipped the policy step: eleven
\* statements, Q_min evaluated on critics no gradient step had touched yet
C22_Witness ==
    /\ LastReturned
    /\ hyper_params.AUTO_ENTROPY_TUNING
    /\ ~last.policy
    /\ update_step = 1
    /\ Len(last.trace) = 11
    /\ \A f \in QMinForwards : last.trace[f].version = 0
    /\ params.qf_1 = 1

\* ------------------------------------------------------------------------
\* Properties of the transitions train() stores (checked under
\* SpecTrainBrake, in training mode)
\* ------------------------------------------------------------------------
\* C23: every environment step of train() adds exactly one transition to the
\* store and no other step of train() changes the store; the transition's
\* state is the observation select_action was given, its action the action
\* the environment received (the brake override applied), its next_state the
\* observation the environment returned; transitions are numbered in the
\* order of the steps, and within an episode the next_state of a stored
\* transition is the state of the next one.
C23_OneTransitionPerStepInOrder ==
    [][/\ IsEnvStep =>
             /\ n_add' = n_add + 1
             /\ n_add' = total_step'
             /\ \E t \in AllStored(memory') :
                   /\ t.id = n_add'
                   /\ t.ep = i_episode
                   /\ t.k = episode_step'
                   /\ t.state = loop.state
                   /\ t.action = env'.action
                   /\ t.action.braked = loop'.action.braked
                   /\ t.next_state = env'.obs
                   /\ loop'.state = t.next_state
                   /\ AllStored(memory') \ {t} \subseteq AllStored(memory)
       /\ ~IsEnvStep => (memory' = memory /\ n_add' = n_add)
       /\ \A t1, t2 \in AllStored(memory') :
             /\ (t1.ep = t2.ep /\ t2.k = t1.k + 1) =>
                   (t1.next_state = t2.state /\ t2.id = t1.id + 1)
             /\ t1.id < t2.id =>
                   (t1.ep < t2.ep \/ (t1.ep = t2.ep /\ t1.k < t2.k))
             /\ t1.id = t2.id => t1 = t2]_vars

\* the second episode holds two consecutive transitions, the first with a
\* braked action, the second starting where the first ended
C23_Witness ==
    /\ hyper_params.BRAKE_ENABLE
    /\ n_add = total_step
    /\ \E t1, t2 \in AllStored(memory) :
          /\ t1.ep = 2 /\ t2.ep = 2
          /\ t1.k = 1 /\ t2.k = 2
          /\ t1.action.braked
          /\ t1.state = Observation(2, 0)
          /\ t1.next_state = t2.state
          /\ t2.id = t1.id + 1

\* ------------------------------------------------------------------------
\* Properties of the brake heuristic (checked under SpecTrainBrake)
\* ------------------------------------------------------------------------
\* C24: at a pass of the step loop the brake table is read if and only if
\* BRAKE_ENABLE is set and total_step < BRAKE_REGION, and the entry read, which
\* BRAKE_FACTOR scales to the probability of the override, is the one at the
\* number of elapsed environment steps, total_step.
C24_BrakeProbabilityAtElapsedSteps ==
    [][pc = "step" =>
          /\ (loop'.brake_index # -1) <=>
                (hyper_params.BRAKE_ENABLE
                    /\ total_step < hyper_params.BRAKE_REGION)
          /\ loop'.brake_index # -1 => loop'.brake_index = total_step]_vars

\* C25: whenever train() reads the brake table, the index it uses lies within
\* 0 .. BRAKE_REGION - 1, the table's length.
C25_BrakeIndexWithinTable ==
    loop.brake_index # -1 =>
        loop.brake_index \in 0 .. hyper_params.BRAKE_REGION - 1

\* ------------------------------------------------------------------------
\* Properties of a failing load_params (checked under SpecCkpt)
\* ------------------------------------------------------------------------
\* C26: a load_params call on an existing checkpoint that lacks a key it
\* requires raises, and leaves every network and every optimizer as it was
\* before the call.
C26_FailedLoadLeavesAgentUntouched ==
    [][(last'.op = "load_params" /\ disk[last'.path].exists
           /\ ~(RequiredKeys \subseteq DOMAIN disk[last'.path].data)) =>
          /\ last'.status = "raised"
          /\ params' = params
          /\ log_alpha' = log_alpha]_vars

\* ------------------------------------------------------------------------
\* run() of the recurrent example
\* ------------------------------------------------------------------------
\* the same command line without --load-from
WithoutPath(a) == [a EXCEPT !.load_from = {}]

\* C27: a recurrent-agent run started with a checkpoint path that does not
\* exist is a fresh start: its initial parameters and the hyper-parameters in
\* effect, the length of the random warm-up window included, are those of a
\* run started with no checkpoint path.
C27_MissingPathRunIsFreshStart ==
    ConstructedOnMissingPath =>
        /\ params = FreshParams(RunHyperParams(WithoutPath(args)), 0)
        /\ hyper_params = RunHyperParams(WithoutPath(args))
        /\ hyper_params.INITIAL_RANDOM_ACTION
              = RunHyperParams(WithoutPath(args)).INITIAL_RANDOM_ACTION

\* C28: with the mapping of the recurrent example every key train() reads
\* without a presence check is defined, so no environment step ends in a
\* missing-key failure at the training gate and a store of at least
\* BATCH_SIZE entries leads on to update_model.
C28_ExampleMappingDefinesGateKeys ==
    /\ ~(pc = "crashed" /\ loop.error = "key")
    /\ (pc \in {"step", "end", "crashed"}
           /\ MemoryLen(memory) >= hyper_params.BATCH_SIZE) =>
          last.op = "update_model"

\* ------------------------------------------------------------------------
\* train(): termination
\* ------------------------------------------------------------------------
\* the env.reset calls so far, in order
Resets == SelectSeq(events, LAMBDA e : e[1] = "reset")

\* C29: when every episode's environment comes to report done and no
\* collaborator call fails, train() runs exactly episode_num episodes in the
\* order 1..episode_num, each of at least one environment step, and then
\* closes the environment, saves the checkpoint and evaluates; the step loop
\* of an episode ends only when the environment reports done.  In safety
\* form: train() never stops inside an episode, an episode is left only on
\* done after a step, and a finished train() has reset the environment once
\* per episode in order and ended with close, save and test.
C29_TrainRunsEveryEpisodeToTheEnd ==
    ~args.test =>
        /\ pc # "crashed"
        /\ pc = "end" => (loop.done /\ episode_step >= 1)
        /\ pc = "done" =>
              /\ i_episode = args.episode_num
              /\ Resets = [i \in 1 .. args.episode_num |-> <<"reset", i>>]
              /\ Len(events) >= 3
              /\ SubSeq(events, Len(events) - 2, Len(events))
                    = <<<<"close", i_episode>>, <<"final_save", i_episode>>,
                        <<"final_test", i_episode>>>>

============================================================================
